---- MODULE Spec2Model ----
(***************************************************************************)
(* Model of extract_droid.py: the scan of the Droid session directory      *)
(* (extract_droid_sessions) and the statistics of main.                    *)
(*                                                                         *)
(* Python values are tagged records, a dict is a function from its keys,   *)
(* a list is a sequence and a str is a string.  A session file is read     *)
(* line by line; a line is blank, undecodable, or decodes to a value.      *)
(***************************************************************************)
EXTENDS Integers, Sequences, FiniteSets, TLC

VARIABLES
    sessions_dir,   \* "missing" | "present": result of find_droid_sessions
    nfiles,         \* len(jsonl_files)
    fi,             \* index of the file of the current iteration (its stem)
    pc,             \* position of the program
    lines,          \* lines of the current file read so far
    messages,       \* local of the current iteration
    session_title,  \* local of the current iteration
    session_owner,  \* local of the current iteration
    conversations,  \* the list extract_droid_sessions returns
    log,            \* "Error processing ..." lines printed, in order
    stats           \* the counters main computes

vars == <<sessions_dir, nfiles, fi, pc, lines, messages, session_title,
          session_owner, conversations, log, stats>>

----------------------------------------------------------------------------
(* Bounds *)

MaxLines == 3

MaxFiles == 2

MaxDirLines == 2

MaxBlocks == 3

----------------------------------------------------------------------------
(* Python values *)

PyNone == [py |-> "None"]

PyStr(s) == [py |-> "str", s |-> s]

PyInt(n) == [py |-> "int", n |-> n]

PyList(items) == [py |-> "list", items |-> items]

PyDict(d) == [py |-> "dict", d |-> d]

EmptyDict == PyDict([k \in {} |-> PyNone])

\* isinstance(v, dict); .get on anything else raises AttributeError
IsDict(v) == v.py = "dict"

IsList(v) == v.py = "list"

IsStr(v) == v.py = "str"

\* Python truth value
Truthy(v) ==
    CASE v.py = "None" -> FALSE
      [] v.py = "str"  -> v.s # ""
      [] v.py = "int"  -> v.n # 0
      [] v.py = "list" -> v.items # <<>>
      [] v.py = "dict" -> DOMAIN v.d # {}
      [] OTHER         -> TRUE

\* dict.get(k, default)
Get(v, k, default) == IF k \in DOMAIN v.d THEN v.d[k] ELSE default

\* d[k] = x on a dict built by the program
SetItem(d, k, x) == [key \in DOMAIN d \cup {k} |-> IF key = k THEN x ELSE d[key]]

\* 'k' in d
HasKey(d, k) == k \in DOMAIN d

----------------------------------------------------------------------------
(* Lines of a session file *)

BlankLine == [text |-> "blank"]

GarbageLine == [text |-> "garbage"]

Json(v) == [text |-> "json", val |-> v]

\* not line.strip()
IsBlank(line) == line.text = "blank"

\* json.loads(line) raises JSONDecodeError
DecodeFails(line) == line.text = "garbage"

\* json.loads(line)
Loads(line) == line.val

----------------------------------------------------------------------------
(* Building one Message from a `message` record *)

\* if role not in ['user', 'assistant']: continue
RoleOk(role) == role \in {PyStr("user"), PyStr("assistant")}

\* content_parts, made a list
ContentParts(message) ==
    LET content_parts == Get(message, "content", PyList(<<>>))
    IN  IF IsList(content_parts) THEN content_parts.items
        ELSE IF Truthy(content_parts) THEN <<content_parts>> ELSE <<>>

NoBlocks == [text_content |-> <<>>, tool_uses |-> <<>>, tool_results |-> <<>>,
             thinking |-> PyNone]

\* variant with a slip: the first thinking block wins
ThinkingFirst(thinking, content_item) ==
    IF thinking = PyNone THEN Get(content_item, "thinking", PyNone) ELSE thinking

\* thinking = content_item.get('thinking')
ThinkingOf(thinking, content_item) == Get(content_item, "thinking", PyNone)

\* one pass of the loop over content_parts
ProcessItem(acc, content_item) ==
    IF ~IsDict(content_item) THEN acc
    ELSE LET content_type == Get(content_item, "type", PyNone)
         IN  CASE content_type = PyStr("text") ->
                    [acc EXCEPT !.text_content =
                        Append(@, Get(content_item, "text", PyStr("")))]
               [] content_type = PyStr("thinking") ->
                    [acc EXCEPT !.thinking = ThinkingOf(@, content_item)]
               [] content_type = PyStr("tool_use") ->
                    [acc EXCEPT !.tool_uses = Append(@,
                        [id    |-> Get(content_item, "id", PyNone),
                         name  |-> Get(content_item, "name", PyNone),
                         input |-> Get(content_item, "input", PyNone)])]
               [] content_type = PyStr("tool_result") ->
                    [acc EXCEPT !.tool_results = Append(@,
                        [tool_use_id |-> Get(content_item, "tool_use_id", PyNone),
                         content     |-> Get(content_item, "content", PyNone)])]
               [] OTHER -> acc

RECURSIVE ProcessItems(_, _)
\* for content_item in content_parts
ProcessItems(acc, content_parts) ==
    IF content_parts = <<>> THEN acc
    ELSE ProcessItems(ProcessItem(acc, Head(content_parts)), Tail(content_parts))

RECURSIVE JoinStr(_, _)
\* sep.join(parts), parts a sequence of strings
JoinStr(sep, parts) ==
    IF parts = <<>> THEN ""
    ELSE IF Len(parts) = 1 THEN parts[1]
    ELSE parts[1] \o sep \o JoinStr(sep, Tail(parts))

\* '\n'.join(text_content): TypeError unless every item is a str
JoinRaises(text_content) == \E i \in 1..Len(text_content) : ~IsStr(text_content[i])

\* variant with a slip: the texts are joined without a separator
JoinTextNoSeparator(text_content) ==
    PyStr(JoinStr("", [i \in 1..Len(text_content) |-> text_content[i].s]))

JoinText(text_content) ==
    PyStr(JoinStr("\n", [i \in 1..Len(text_content) |-> text_content[i].s]))

\* if thinking: msg['thinking'] = thinking
AttachThinking(msg, thinking) ==
    IF Truthy(thinking) THEN SetItem(msg, "thinking", thinking) ELSE msg

\* variant with a slip: tool_uses is set even when it is empty
AttachToolUsesAlways(msg, tool_uses) == SetItem(msg, "tool_uses", tool_uses)

\* if tool_uses: msg['tool_uses'] = tool_uses
AttachToolUses(msg, tool_uses) ==
    IF tool_uses # <<>> THEN SetItem(msg, "tool_uses", tool_uses) ELSE msg

\* if tool_results: msg['tool_results'] = tool_results
AttachToolResults(msg, tool_results) ==
    IF tool_results # <<>> THEN SetItem(msg, "tool_results", tool_results) ELSE msg

\* the msg dict of a record whose role passed the test
BuildMsg(obj, message) ==
    LET acc == ProcessItems(NoBlocks, ContentParts(message))
        msg == [role      |-> Get(message, "role", PyNone),
                content   |-> JoinText(acc.text_content),
                timestamp |-> Get(obj, "timestamp", PyNone)]
    IN  AttachToolResults(
            AttachToolUses(AttachThinking(msg, acc.thinking), acc.tool_uses),
            acc.tool_results)

\* variant with a slip: messages.insert(0, msg)
PrependMessage(msgs, msg) == <<msg>> \o msgs

\* messages.append(msg)
AppendMessage(msgs, msg) == Append(msgs, msg)

----------------------------------------------------------------------------
(* One line of a file: the body of `for line in f` *)

\* the locals of one iteration over the files
NewScan == [messages |-> <<>>, session_title |-> PyNone, session_owner |-> PyNone,
            exc |-> "none"]

Raise(st, e) == [st EXCEPT !.exc = e]

\* variant with a slip: a second session_start record is ignored
SessionStartOnce(st, obj) ==
    IF st.session_title # PyNone THEN st
    ELSE [st EXCEPT !.session_title = Get(obj, "title", PyStr("New Session")),
                    !.session_owner = Get(obj, "owner", PyNone)]

\* session_title = obj.get('title', 'New Session'); session_owner = obj.get('owner')
SessionStart(st, obj) ==
    [st EXCEPT !.session_title = Get(obj, "title", PyStr("New Session")),
               !.session_owner = Get(obj, "owner", PyNone)]

\* the 'message' branch
MessageRecord(st, obj) ==
    LET message == Get(obj, "message", EmptyDict)
    IN  IF ~IsDict(message) THEN Raise(st, "AttributeError")
        ELSE IF ~RoleOk(Get(message, "role", PyNone)) THEN st
        ELSE IF JoinRaises(ProcessItems(NoBlocks, ContentParts(message)).text_content)
             THEN Raise(st, "TypeError")
        ELSE [st EXCEPT !.messages = AppendMessage(@, BuildMsg(obj, message))]

\* variant with a slip: every todo_state record overwrites the todos of the last message
TodoStateOverwrites(st, obj) ==
    IF st.messages # <<>>
    THEN [st EXCEPT !.messages[Len(st.messages)] =
              SetItem(@, "todos", Get(obj, "todos", PyNone))]
    ELSE st

\* the 'todo_state' branch
TodoState(st, obj) ==
    IF st.messages # <<>> /\ ~HasKey(st.messages[Len(st.messages)], "todos")
    THEN [st EXCEPT !.messages[Len(st.messages)] =
              SetItem(@, "todos", Get(obj, "todos", PyNone))]
    ELSE st

\* variant with a slip: no handler around json.loads, the error reaches the handler of the file
DecodeErrorPropagates(st) == Raise(st, "JSONDecodeError")

\* except json.JSONDecodeError: continue
DecodeError(st) == st

ProcessLine(st, line) ==
    IF IsBlank(line) THEN st
    ELSE IF DecodeFails(line) THEN DecodeError(st)
    ELSE LET obj == Loads(line)
         IN  IF ~IsDict(obj) THEN Raise(st, "AttributeError")
             ELSE LET msg_type == Get(obj, "type", PyNone)
                  IN  CASE msg_type = PyStr("session_start") -> SessionStart(st, obj)
                        [] msg_type = PyStr("message")       -> MessageRecord(st, obj)
                        [] msg_type = PyStr("todo_state")    -> TodoState(st, obj)
                        [] OTHER                             -> st

----------------------------------------------------------------------------
(* The end of a file and the statistics *)

\* variant with a slip: the Conversation is appended whatever its messages
KeepAlways(msgs) == TRUE

\* if messages:
KeepConversation(msgs) == msgs # <<>>

Conversation(msgs, id, title, owner) ==
    [messages      |-> msgs,
     source        |-> "droid",
     session_id    |-> id,
     session_title |-> title,
     session_owner |-> owner,
     source_file   |-> id]

\* variant with a slip: the handler drops what was collected
OnErrorClears(convs) == <<>>

\* except Exception as e: print(...); continue
OnError(convs) == convs

\* any('tool_uses' in m or 'tool_results' in m for m in c['messages'])
AnyTools(c) ==
    \E j \in 1..Len(c.messages) :
        HasKey(c.messages[j], "tool_uses") \/ HasKey(c.messages[j], "tool_results")

\* any('thinking' in m for m in c['messages'])
AnyThinking(c) == \E j \in 1..Len(c.messages) : HasKey(c.messages[j], "thinking")

RECURSIVE SumLen(_)
\* sum(len(c['messages']) for c in conversations)
SumLen(convs) == IF convs = <<>> THEN 0 ELSE Len(Head(convs).messages) + SumLen(Tail(convs))

\* sum(1 for m in c['messages'] if m['role'] == role)
RoleCount(msgs, role) == Cardinality({j \in 1..Len(msgs) : msgs[j].role = PyStr(role)})

RECURSIVE CountRole(_, _)
CountRole(convs, role) ==
    IF convs = <<>> THEN 0
    ELSE RoleCount(Head(convs).messages, role) + CountRole(Tail(convs), role)

NoStats == [total_messages |-> 0, user_messages |-> 0, assistant_messages |-> 0,
            with_tools |-> 0, with_thinking |-> 0]

Statistics(convs) ==
    [total_messages     |-> SumLen(convs),
     user_messages      |-> CountRole(convs, "user"),
     assistant_messages |-> CountRole(convs, "assistant"),
     with_tools         |-> Cardinality({i \in 1..Len(convs) : AnyTools(convs[i])}),
     with_thinking      |-> Cardinality({i \in 1..Len(convs) : AnyThinking(convs[i])})]

----------------------------------------------------------------------------
(* The inputs: content blocks, records and lines *)

TextBlock(s) == PyDict([type |-> PyStr("text"), text |-> PyStr(s)])

\* a text block without the key `text`
TextBlockBare == PyDict([type |-> PyStr("text")])

\* a text block whose `text` is not a string
TextBlockBad == PyDict([type |-> PyStr("text"), text |-> PyInt(7)])

ThinkingBlock(s) == PyDict([type |-> PyStr("thinking"), thinking |-> PyStr(s)])

\* a thinking block without the key `thinking`
ThinkingBlockBare == PyDict([type |-> PyStr("thinking")])

ToolUseBlock(id) ==
    PyDict([type |-> PyStr("tool_use"), id |-> PyStr(id), name |-> PyStr("Read"),
            input |-> EmptyDict])

ToolResultBlock(id) ==
    PyDict([type |-> PyStr("tool_result"), tool_use_id |-> PyStr(id),
            content |-> PyStr("ok")])

ImageBlock == PyDict([type |-> PyStr("image")])

MessageLine(role, ts, content) ==
    Json(PyDict([type |-> PyStr("message"), timestamp |-> PyStr(ts),
                 message |-> PyDict([role |-> PyStr(role), content |-> content])]))

SessionStartFull ==
    Json(PyDict([type |-> PyStr("session_start"), title |-> PyStr("Fix the build"),
                 owner |-> PyStr("alice")]))

\* a session_start record with neither `title` nor `owner`
SessionStartBare == Json(PyDict([type |-> PyStr("session_start")]))

MsgUser == MessageLine("user", "t1", PyList(<<TextBlock("a")>>))

MsgAsst ==
    MessageLine("assistant", "t2",
                PyList(<<ThinkingBlock("x"), TextBlock("b"), ToolUseBlock("u1")>>))

MsgTool == MessageLine("user", "t3", PyList(<<ToolResultBlock("u1")>>))

\* content is a string, not a list
MsgStr == MessageLine("user", "t4", PyStr("hi"))

\* no `content`, no `timestamp`
MsgNoContent ==
    Json(PyDict([type |-> PyStr("message"),
                 message |-> PyDict([role |-> PyStr("assistant")])]))

MsgSystem == MessageLine("system", "t5", PyList(<<TextBlock("s")>>))

\* a message record without the key `message`
MsgNoBody == Json(PyDict([type |-> PyStr("message")]))

\* `message` is not an object
MsgBadBody == Json(PyDict([type |-> PyStr("message"), message |-> PyStr("oops")]))

MsgBadText == MessageLine("user", "t6", PyList(<<TextBlock("a"), TextBlockBad>>))

\* a line that decodes to a value that is not an object
NonObject == Json(PyList(<<>>))

TodoLine(t) == Json(PyDict([type |-> PyStr("todo_state"), todos |-> PyStr(t)]))

\* a todo_state record without the key `todos`
TodoBare == Json(PyDict([type |-> PyStr("todo_state")]))

OtherLine == Json(PyDict([type |-> PyStr("file_snapshot")]))

Lines ==
    {BlankLine, GarbageLine, NonObject, SessionStartFull, SessionStartBare,
     MsgUser, MsgAsst, MsgStr, MsgNoContent, MsgSystem, MsgNoBody, MsgBadBody,
     MsgBadText, TodoLine("d1"), TodoLine("d2"), TodoBare, OtherLine}

DirLines == {GarbageLine, NonObject, MsgUser, MsgAsst, MsgTool}

Blocks ==
    {TextBlock("a"), TextBlock("b"), TextBlock(""), TextBlockBare, TextBlockBad,
     ThinkingBlock("x"), ThinkingBlock("y"), ThinkingBlock(""), ThinkingBlockBare,
     ToolUseBlock("u1"), ToolResultBlock("u1"), ImageBlock, PyStr("raw")}

BlockLists == UNION {[1..n -> Blocks] : n \in 0..MaxBlocks}

\* the values `content` takes: a list of blocks, one block, a string, null
Contents ==
    {PyList(bl) : bl \in BlockLists}
        \cup {TextBlock("a"), ThinkingBlock("x"), ToolUseBlock("u1")}
        \cup {PyStr("hi"), PyStr(""), PyNone}

MsgLines == {MessageLine("assistant", "t7", c) : c \in Contents} \cup {MsgNoContent}

----------------------------------------------------------------------------
(* The program *)

InitWith(n) ==
    /\ sessions_dir \in {"missing", "present"}
    /\ nfiles = IF sessions_dir = "present" THEN n ELSE 0
    /\ fi = 0
    /\ pc = "start"
    /\ lines = <<>>
    /\ messages = <<>>
    /\ session_title = PyNone
    /\ session_owner = PyNone
    /\ conversations = <<>>
    /\ log = <<>>
    /\ stats = NoStats

\* one session file in the directory
Init == InitWith(1)

InitDir == \E n \in 0..MaxFiles : InitWith(n)

\* main: the sessions directory does not exist
NoDirectory ==
    /\ pc = "start"
    /\ sessions_dir = "missing"
    /\ pc' = "no_directory"
    /\ UNCHANGED <<sessions_dir, nfiles, fi, lines, messages, session_title,
                   session_owner, conversations, log, stats>>

\* conversations = []; jsonl_files = list(sessions_dir.glob("*.jsonl"))
ListFiles ==
    /\ pc = "start"
    /\ sessions_dir = "present"
    /\ pc' = "loop"
    /\ conversations' = <<>>
    /\ UNCHANGED <<sessions_dir, nfiles, fi, lines, messages, session_title,
                   session_owner, log, stats>>

\* for jsonl_file in jsonl_files: the locals of the iteration, open()
BeginFile ==
    /\ pc = "loop"
    /\ fi < nfiles
    /\ fi' = fi + 1
    /\ pc' = "scan"
    /\ lines' = <<>>
    /\ messages' = NewScan.messages
    /\ session_title' = NewScan.session_title
    /\ session_owner' = NewScan.session_owner
    /\ UNCHANGED <<sessions_dir, nfiles, conversations, log, stats>>

\* for line in f: one line, up to the exception it may raise
ScanFrom(alphabet, maxlen) ==
    /\ pc = "scan"
    /\ Len(lines) < maxlen
    /\ \E line \in alphabet :
          LET st == ProcessLine([messages |-> messages, session_title |-> session_title,
                                 session_owner |-> session_owner, exc |-> "none"], line)
          IN  /\ lines' = Append(lines, line)
              /\ messages' = st.messages
              /\ session_title' = st.session_title
              /\ session_owner' = st.session_owner
              /\ pc' = IF st.exc = "none" THEN "scan" ELSE "loop"
              /\ log' = IF st.exc = "none" THEN log
                        ELSE Append(log, [file |-> fi, error |-> st.exc])
              /\ conversations' = IF st.exc = "none" THEN conversations
                                  ELSE OnError(conversations)
    /\ UNCHANGED <<sessions_dir, nfiles, fi, stats>>

ScanLine == ScanFrom(Lines, MaxLines)

ScanDirLine == ScanFrom(DirLines, MaxDirLines)

\* a file that holds one message record
ScanMsgLine == lines = <<>> /\ ScanFrom(MsgLines, MaxLines)

\* open() or the read of a line raises OSError (or UnicodeDecodeError)
IOError ==
    /\ pc = "scan"
    /\ pc' = "loop"
    /\ log' = Append(log, [file |-> fi, error |-> "OSError"])
    /\ conversations' = OnError(conversations)
    /\ UNCHANGED <<sessions_dir, nfiles, fi, lines, messages, session_title,
                   session_owner, stats>>

\* end of file: if messages: conversations.append({...})
EndOfFile ==
    /\ pc = "scan"
    /\ pc' = "loop"
    /\ conversations' =
          IF KeepConversation(messages)
          THEN Append(conversations,
                      Conversation(messages, fi, session_title, session_owner))
          ELSE conversations
    /\ UNCHANGED <<sessions_dir, nfiles, fi, lines, messages, session_title,
                   session_owner, log, stats>>

\* return conversations; main: the statistics
Report ==
    /\ pc = "loop"
    /\ fi = nfiles
    /\ pc' = IF conversations = <<>> THEN "no_sessions" ELSE "done"
    /\ stats' = IF conversations = <<>> THEN stats ELSE Statistics(conversations)
    /\ UNCHANGED <<sessions_dir, nfiles, fi, lines, messages, session_title,
                   session_owner, conversations, log>>

Next == NoDirectory \/ ListFiles \/ BeginFile \/ ScanLine \/ IOError \/ EndOfFile \/ Report

Spec == Init /\ [][Next]_vars

NextDir ==
    NoDirectory \/ ListFiles \/ BeginFile \/ ScanDirLine \/ IOError \/ EndOfFile \/ Report

SpecDir == InitDir /\ [][NextDir]_vars

NextMsg ==
    NoDirectory \/ ListFiles \/ BeginFile \/ ScanMsgLine \/ IOError \/ EndOfFile \/ Report

SpecMsg == Init /\ [][NextMsg]_vars

----------------------------------------------------------------------------
(* What the properties below read off the input *)

\* line decodes to an object whose `type` is t
IsRecord(line, t) ==
    /\ line.text = "json"
    /\ line.val.py = "dict"
    /\ "type" \in DOMAIN line.val.d
    /\ line.val.d["type"] = PyStr(t)

\* the `message` field of a message record (an empty object when absent)
Body(line) ==
    IF "message" \in DOMAIN line.val.d THEN line.val.d["message"] ELSE EmptyDict

\* a `message` record whose role is user or assistant
Qualifies(line) ==
    /\ IsRecord(line, "message")
    /\ Body(line).py = "dict"
    /\ "role" \in DOMAIN Body(line).d
    /\ Body(line).d["role"] \in {PyStr("user"), PyStr("assistant")}

QualifyingLines(ls) == SelectSeq(ls, Qualifies)

\* the content blocks of a qualifying record
BlocksOf(line) ==
    IF "content" \notin DOMAIN Body(line).d THEN <<>>
    ELSE LET c == Body(line).d["content"]
         IN  IF c.py = "list" THEN c.items
             ELSE IF c \in {PyNone, PyStr(""), PyInt(0), EmptyDict} THEN <<>>
             ELSE <<c>>

IsBlock(item, t) ==
    /\ item.py = "dict"
    /\ "type" \in DOMAIN item.d
    /\ item.d["type"] = PyStr(t)

IsTextBlock(item) == IsBlock(item, "text")

IsThinkingBlock(item) == IsBlock(item, "thinking")

IsToolUseBlock(item) == IsBlock(item, "tool_use")

IsToolResultBlock(item) == IsBlock(item, "tool_result")

\* the value of field k of a block, null when the block has no such field
Field(item, k) == IF k \in DOMAIN item.d THEN item.d[k] ELSE PyNone

\* the current file raised an error
Errored(f) == \E i \in 1..Len(log) : log[i].file = f

\* the scan of the current file is over
FileDone == pc = "loop" /\ fi >= 1

\* the current file was read to its end
ScannedToEnd == FileDone /\ ~Errored(fi)

\* the indexes of the Conversations of file f
ConvsOf(f) == {i \in 1..Len(conversations) : conversations[i].session_id = f}

----------------------------------------------------------------------------
(* C1: a file read to its end that holds at least one message record of    *)
(* role user or assistant yields exactly one Conversation, whose messages  *)
(* are those records, one Message each, in the order of the file.          *)
C1_OneConversationInFileOrder ==
    (ScannedToEnd /\ QualifyingLines(lines) # <<>>) =>
        LET q == QualifyingLines(lines)
        IN  /\ Cardinality(ConvsOf(fi)) = 1
            /\ \A i \in ConvsOf(fi) :
                 LET ms == conversations[i].messages
                 IN  /\ Len(ms) = Len(q)
                     /\ \A j \in 1..Len(q) :
                          /\ ms[j].role = Body(q[j]).d["role"]
                          /\ ms[j].timestamp = Field(q[j].val, "timestamp")

\* two different qualifying records, one with a content that is no list,
\* and another record between them
C1_Witness ==
    /\ ScannedToEnd
    /\ lines = <<MsgStr, TodoLine("d1"), MsgAsst>>
    /\ Len(conversations) = 1
    /\ Len(conversations[1].messages) = 2

(* C2: every Conversation of the output has at least one Message, and a    *)
(* file without a message record of role user or assistant yields none.    *)
C2_NoEmptyConversation ==
    /\ \A i \in 1..Len(conversations) : conversations[i].messages # <<>>
    /\ (FileDone /\ QualifyingLines(lines) = <<>>) => ConvsOf(fi) = {}

\* a file of three records, none of them a qualifying message, read to its end
C2_Witness ==
    /\ ScannedToEnd
    /\ lines = <<SessionStartFull, MsgSystem, TodoLine("d1")>>
    /\ conversations = <<>>

\* a message record that the scan can turn into a Message
WellFormed(line) ==
    /\ Qualifies(line)
    /\ \A k \in 1..Len(BlocksOf(line)) :
         IsTextBlock(BlocksOf(line)[k]) =>
            ("text" \notin DOMAIN BlocksOf(line)[k].d
                \/ BlocksOf(line)[k].d["text"].py = "str")

(* C3: without an I/O error, the well-formed message records of a file are *)
(* in the output whatever corrupt records the file also holds.             *)
C3_CorruptRecordLosesNothing ==
    (/\ FileDone
     /\ \A i \in 1..Len(log) : ~(log[i].file = fi /\ log[i].error = "OSError")
     /\ SelectSeq(lines, WellFormed) # <<>>)
        => \E i \in ConvsOf(fi) :
              Len(conversations[i].messages) = Len(SelectSeq(lines, WellFormed))

NotGarbage(line) == line.text # "garbage"

RECURSIVE ScanAll(_, _)
\* the locals after the lines ls, from the locals st
ScanAll(st, ls) ==
    IF ls = <<>> \/ st.exc # "none" THEN st
    ELSE ScanAll(ProcessLine(st, Head(ls)), Tail(ls))

(* C4: the lines that do not decode have no effect: none of them ends the  *)
(* scan of the file, and the locals of the scan and the Conversation       *)
(* emitted are those of the file without these lines.                      *)
C4_UndecodableLineSkipped ==
    /\ (FileDone /\ lines # <<>> /\ ~NotGarbage(lines[Len(lines)])) =>
          \A i \in 1..Len(log) : log[i].file = fi => log[i].error = "OSError"
    /\ (pc = "scan" \/ ScannedToEnd) =>
        LET ref == ScanAll(NewScan, SelectSeq(lines, NotGarbage))
        IN  /\ ref.exc = "none"
            /\ messages = ref.messages
            /\ session_title = ref.session_title
            /\ session_owner = ref.session_owner
            /\ ScannedToEnd =>
                 IF ref.messages = <<>> THEN ConvsOf(fi) = {}
                 ELSE /\ Cardinality(ConvsOf(fi)) = 1
                      /\ \A i \in ConvsOf(fi) :
                           conversations[i] =
                              Conversation(ref.messages, fi, ref.session_title,
                                           ref.session_owner)

\* an undecodable line between two message records
C4_Witness ==
    /\ ScannedToEnd
    /\ lines = <<MsgUser, GarbageLine, MsgAsst>>
    /\ Len(conversations) = 1
    /\ Len(conversations[1].messages) = 2

C5_State ==
    /\ \A i \in 1..Len(conversations) : ~Errored(conversations[i].session_id)
    /\ pc \in {"done", "no_sessions"} => fi = nfiles
    /\ (ScannedToEnd /\ QualifyingLines(lines) # <<>>) => ConvsOf(fi) # {}

C5_Step ==
    Len(log') > Len(log) => (conversations' = conversations /\ pc' = "loop")

(* C5: a file whose scan raises an error yields no Conversation, leaves    *)
(* the Conversations collected so far as they are, and the scan goes on    *)
(* to every remaining file, which yields its Conversation.                 *)
C5_FileErrorIsolated == [](C5_State) /\ [][C5_Step]_vars

\* the first file raised after a message record, the second yields its Conversation
C5_Witness ==
    /\ pc = "done"
    /\ Len(log) = 1
    /\ log[1].file = 1
    /\ Len(conversations) = 1
    /\ conversations[1].session_id = 2

\* the position in ls of the j-th qualifying record
Pos(ls, j) ==
    CHOOSE p \in 1..Len(ls) :
        /\ Qualifies(ls[p])
        /\ Cardinality({q \in 1..p : Qualifies(ls[q])}) = j

\* the positions of the todo_state records between the j-th qualifying
\* record and the next one
TodosAfter(ls, j) ==
    LET n    == Len(QualifyingLines(ls))
        stop == IF j < n THEN Pos(ls, j + 1) ELSE Len(ls) + 1
    IN  {p \in (Pos(ls, j) + 1)..(stop - 1) : IsRecord(ls[p], "todo_state")}

(* C6: a Message carries the todos of the first todo_state record that     *)
(* follows its record and precedes the next message record, and no todos   *)
(* when there is none.                                                     *)
C6_FirstTodoStateWins ==
    (pc = "scan" \/ ScannedToEnd) =>
        /\ Len(messages) = Len(QualifyingLines(lines))
        /\ \A j \in 1..Len(messages) :
             LET T == TodosAfter(lines, j)
             IN  IF T = {} THEN ~HasKey(messages[j], "todos")
                 ELSE /\ HasKey(messages[j], "todos")
                      /\ \A p \in T :
                           (\A r \in T : p <= r) =>
                              messages[j].todos = Field(lines[p].val, "todos")
        /\ \A i \in ConvsOf(fi) : ScannedToEnd => conversations[i].messages = messages

\* two todo_state records of different payloads after one message
C6_Witness ==
    /\ pc = "scan"
    /\ lines = <<MsgUser, TodoLine("d1"), TodoLine("d2")>>
    /\ messages[1].todos = PyStr("d1")

\* the positions of the session_start records
Starts(ls) == {p \in 1..Len(ls) : IsRecord(ls[p], "session_start")}

TitleOf(line) ==
    IF "title" \in DOMAIN line.val.d THEN line.val.d["title"] ELSE PyStr("New Session")

(* C7, as claimed: the title and the owner of the Conversation are those   *)
(* of the first session_start record of the file.                          *)
C7_FirstSessionStartWins ==
    ScannedToEnd =>
        \A i \in ConvsOf(fi) : \A p \in Starts(lines) :
            (\A r \in Starts(lines) : p <= r) =>
                /\ conversations[i].session_title = TitleOf(lines[p])
                /\ conversations[i].session_owner = Field(lines[p].val, "owner")

(* C7, amended: the title and the owner of the Conversation are those of   *)
(* the last session_start record of the file, and null without one.        *)
C7_LastSessionStartWins ==
    ScannedToEnd =>
        \A i \in ConvsOf(fi) :
            /\ \A p \in Starts(lines) :
                 (\A r \in Starts(lines) : r <= p) =>
                    /\ conversations[i].session_title = TitleOf(lines[p])
                    /\ conversations[i].session_owner = Field(lines[p].val, "owner")
            /\ Starts(lines) = {} =>
                 /\ conversations[i].session_title = PyNone
                 /\ conversations[i].session_owner = PyNone

\* two different session_start records, then a message
C7_Witness ==
    /\ ScannedToEnd
    /\ lines = <<SessionStartFull, SessionStartBare, MsgUser>>
    /\ Len(conversations) = 1
    /\ conversations[1].session_title = PyStr("New Session")

\* the text of a text block, empty when the block has no `text`
TextOf(item) == IF "text" \in DOMAIN item.d THEN item.d["text"].s ELSE ""

RECURSIVE Joined(_)
\* the strings ts with a newline between them, from the last one
Joined(ts) ==
    IF ts = <<>> THEN ""
    ELSE IF Len(ts) = 1 THEN ts[1]
    ELSE Joined(SubSeq(ts, 1, Len(ts) - 1)) \o "\n" \o ts[Len(ts)]

\* the single message record of the file became a Message
OneMessage == Len(lines) = 1 /\ Len(messages) = 1 /\ Qualifies(lines[1])

(* C8: the content of a Message is the texts of the text blocks of its     *)
(* record, in order, joined by newlines (a text block without `text`       *)
(* counts as the empty string); the empty string without a text block.     *)
C8_ContentJoinsTextBlocks ==
    OneMessage =>
        LET tb == SelectSeq(BlocksOf(lines[1]), IsTextBlock)
        IN  /\ messages[1].content = PyStr(Joined([k \in 1..Len(tb) |-> TextOf(tb[k])]))
            /\ tb = <<>> => messages[1].content = PyStr("")

\* two text blocks with a thinking block between them
C8_Witness ==
    /\ OneMessage
    /\ BlocksOf(lines[1]) = <<TextBlock("a"), ThinkingBlock("x"), TextBlock("b")>>
    /\ messages[1].content = PyStr("a\nb")

(* C9, as claimed: the thinking of a Message is the value of the last      *)
(* thinking block of its record, and the Message has no thinking when      *)
(* there is no thinking block.                                             *)
C9_LastThinkingBlock ==
    OneMessage =>
        LET th == SelectSeq(BlocksOf(lines[1]), IsThinkingBlock)
        IN  IF th = <<>> THEN ~HasKey(messages[1], "thinking")
            ELSE /\ HasKey(messages[1], "thinking")
                 /\ messages[1].thinking = Field(th[Len(th)], "thinking")

(* C9, amended: the thinking of a Message is the value of the last         *)
(* thinking block of its record when that value is a non-empty string; the *)
(* Message has no thinking when that value is empty or missing, or when    *)
(* there is no thinking block.                                             *)
C9_LastNonEmptyThinking ==
    OneMessage =>
        LET th == SelectSeq(BlocksOf(lines[1]), IsThinkingBlock)
        IN  IF th = <<>> \/ Field(th[Len(th)], "thinking") \in {PyNone, PyStr("")}
            THEN ~HasKey(messages[1], "thinking")
            ELSE /\ HasKey(messages[1], "thinking")
                 /\ messages[1].thinking = Field(th[Len(th)], "thinking")

\* two thinking blocks of different values
C9_Witness ==
    /\ OneMessage
    /\ BlocksOf(lines[1]) = <<ThinkingBlock("x"), TextBlock("a"), ThinkingBlock("y")>>
    /\ messages[1].thinking = PyStr("y")

\* a Message with at least one entry in tool_uses or tool_results
UsesTools(m) ==
    \/ ("tool_uses" \in DOMAIN m /\ Len(m.tool_uses) > 0)
    \/ ("tool_results" \in DOMAIN m /\ Len(m.tool_results) > 0)

RECURSIVE CountTrue(_)
\* the number of TRUE in the sequence flags
CountTrue(flags) ==
    IF flags = <<>> THEN 0
    ELSE (IF Head(flags) THEN 1 ELSE 0) + CountTrue(Tail(flags))

HasThinking(m) == "thinking" \in DOMAIN m

(* C10: a Message has tool_uses (tool_results) exactly when its record has *)
(* a tool_use (tool_result) block, with one entry per block in order, so   *)
(* with_tools counts the Conversations with a Message of such a record;    *)
(* with_thinking counts the Conversations with a Message with thinking.    *)
C10_ToolAndThinkingCounters ==
    /\ ScannedToEnd =>
         LET q == QualifyingLines(lines)
         IN  /\ Len(messages) = Len(q)
             /\ \A j \in 1..Len(messages) :
                  LET tu == SelectSeq(BlocksOf(q[j]), IsToolUseBlock)
                      tr == SelectSeq(BlocksOf(q[j]), IsToolResultBlock)
                  IN  /\ HasKey(messages[j], "tool_uses") <=> tu # <<>>
                      /\ HasKey(messages[j], "tool_results") <=> tr # <<>>
                      /\ tu # <<>> =>
                           /\ Len(messages[j].tool_uses) = Len(tu)
                           /\ \A k \in 1..Len(tu) :
                                messages[j].tool_uses[k].id = Field(tu[k], "id")
                      /\ tr # <<>> =>
                           /\ Len(messages[j].tool_results) = Len(tr)
                           /\ \A k \in 1..Len(tr) :
                                messages[j].tool_results[k].tool_use_id =
                                    Field(tr[k], "tool_use_id")
    /\ pc = "done" =>
         /\ stats.with_tools =
              CountTrue([i \in 1..Len(conversations) |->
                  \E j \in 1..Len(conversations[i].messages) :
                      UsesTools(conversations[i].messages[j])])
         /\ stats.with_thinking =
              CountTrue([i \in 1..Len(conversations) |->
                  \E j \in 1..Len(conversations[i].messages) :
                      HasThinking(conversations[i].messages[j])])

\* two Conversations, one of them with a tool_use and a thinking block
C10_Witness ==
    /\ pc = "done"
    /\ Len(conversations) = 2
    /\ stats.with_tools = 1
    /\ stats.with_thinking = 1
    /\ lines = <<MsgAsst>>

====
